---- MODULE Spec2Model ----
(***************************************************************************)
(* The chat-turn state machine of the ChatProvider context                 *)
(* (src/unnamed/part_003): the message list, the loading flag, the error   *)
(* string, the shared AbortController slot, and the asynchronous calls of  *)
(* sendMessage and regenerateMessage, each modelled as a process that      *)
(* advances from one await to the next.                                    *)
(*                                                                         *)
(* Text is a sequence of one-character strings; "LF" stands for the        *)
(* newline character.  An optional value (undefined or a value v) is the   *)
(* empty sequence or <<v>>.                                                *)
(***************************************************************************)
EXTENDS Integers, Sequences, FiniteSets, TLC

\* ------------------------------------------------------------------ bounds

\* Number of sendMessage / regenerateMessage calls in one behaviour.
MaxCalls == 2

\* Number of chunks a provider stream yields at most.
MaxChunks == 2

\* ------------------------------------------------------------ text helpers

None == <<>>

Some(v) == <<v>>

\* msg.streamingContent || ""
OrEmpty(opt) == IF opt = None THEN <<>> ELSE opt[1]

\* The literal "\n\n__STREAM_COMPLETE__\n\n".
Marker ==
  <<"LF", "LF", "_", "_", "S", "T", "R", "E", "A", "M", "_", "C", "O", "M",
    "P", "L", "E", "T", "E", "_", "_", "LF", "LF">>

\* The offset added to the marker index to reach the JSON tail.
MarkerSkip == 23

\* String.prototype.substring(from) and substring(0, to), 0-based.
SubstringFrom(s, from) == SubSeq(s, from + 1, Len(s))

SubstringTo(s, to) == SubSeq(s, 1, IF to > Len(s) THEN Len(s) ELSE to)

\* String.prototype.indexOf(needle): 0-based index of the first occurrence, -1 if none.
IndexOf(s, needle) ==
  LET hits == {i \in 0..(Len(s) - Len(needle)) :
                 SubSeq(s, i + 1, i + Len(needle)) = needle}
  IN  IF hits = {} THEN -1 ELSE CHOOSE i \in hits : \A j \in hits : i <= j

\* String.prototype.trim(): strips leading and trailing white space.
RECURSIVE TrimLeft(_)
TrimLeft(s) ==
  IF s # <<>> /\ Head(s) \in {" ", "LF"} THEN TrimLeft(Tail(s)) ELSE s

RECURSIVE TrimRight(_)
TrimRight(s) ==
  IF s # <<>> /\ s[Len(s)] \in {" ", "LF"}
  THEN TrimRight(SubSeq(s, 1, Len(s) - 1)) ELSE s

Trim(s) == TrimRight(TrimLeft(s))

\* JSON.stringify of the tail object, reduced to its content field:
\* an opening brace, the content, a closing brace.
JsonTail(content) == <<"{">> \o content \o <<"}">>

\* JSON.parse succeeds only on one complete object with nothing after it.
JsonParses(s) ==
  /\ Len(s) >= 2
  /\ s[1] = "{"
  /\ s[Len(s)] = "}"
  /\ \A i \in 2..(Len(s) - 1) : s[i] \notin {"{", "}"}

\* messageData.content of a tail that parses.
JsonContent(s) == SubSeq(s, 2, Len(s) - 1)

\* ------------------------------------------------------------------ inputs

\* Texts a user may submit: empty, white space only, and one real text.
UserTexts == {<<>>, <<" ">>, <<"h", "i">>}

\* Answers a provider may stream.
Answers == {<<"c", "d">>}

\* A response body as the /api/stream action writes it: the answer, the
\* marker, the JSON tail with the full answer as content.
ServerBody(answer) == answer \o Marker \o JsonTail(answer)

Bodies == {ServerBody(a) : a \in Answers}

\* Responses of any server that follows the wire format: streamed text,
\* marker, JSON tail whose content need not equal the streamed text.
WireCases ==
  {[text |-> <<"a">>, content |-> <<"a">>],
   [text |-> <<"a">>, content |-> <<"b">>],
   [text |-> <<>>, content |-> <<"b">>]}

WireBody(w) == w.text \o Marker \o JsonTail(w.content)

\* Bodies closed without a marker: plain text, and text followed by the
\* first characters of the marker.
UnmarkedBodies == {<<"a", "b">>, <<"a">> \o SubSeq(Marker, 1, 4)}

WireBodies == {WireBody(w) : w \in WireCases} \cup UnmarkedBodies

\* Results of a database write: no error, an error returned, an exception.
WriteResults == {"ok", "error", "throws"}

\* Chunk lengths of the coarse network: every character of the answer is
\* one chunk (the server enqueues character by character), the marker and
\* the tail are one chunk (one enqueue).
CoarseCuts(net) ==
  IF net = <<>> THEN {}
  ELSE IF Head(net) = "LF" THEN {Len(net)} ELSE {1}

\* Chunk lengths of a network that may split the body anywhere.
AnyCuts(net) == 1..Len(net)

\* ------------------------------------------------------------------- state

VARIABLES
  messages,            \* useState<Message[]>
  isLoading,           \* useState(false)
  error,               \* useState<string | null>; "null" is null
  abortControllerRef,  \* useRef<AbortController | null>; 0 is null
  aborted,             \* the controllers whose signal.aborted is true
  calls,               \* the calls of sendMessage / regenerateMessage
  db,                  \* writes issued to the persistence layer
  requests,            \* POSTs issued to /api/stream
  server,              \* one run of the /api/stream action
  view                 \* the ChatMessage component of one assistant message

vars ==
  <<messages, isLoading, error, abortControllerRef, aborted, calls, db,
    requests, server, view>>

CallIds == 1..MaxCalls

\* uuidv4(): ids 1 and 2 belong to the loaded exchange, call p draws two more.
UserMessageId(p) == 2 * p + 1

AssistantMessageId(p) == 2 * p + 2

UnknownId == 0

\* A call that has not been made yet.
NoCall ==
  [pc |-> "idle", op |-> "none", content |-> <<>>, isContinuation |-> FALSE,
   target |-> UnknownId, net |-> <<>>, received |-> <<>>,
   streamedContent |-> <<>>, messageData |-> None, finalContent |-> <<>>,
   currentContent |-> <<>>, oldHistory |-> <<>>, newHistory |-> <<>>,
   wasStreaming |-> FALSE, userContent |-> <<>>, writeFailed |-> FALSE,
   outcome |-> "none"]

\* A call that has returned: its locals are gone; what it targeted and how
\* it ended are kept for the properties.
Returned(p, op, target, outcome) ==
  [NoCall EXCEPT !.pc = "done", !.op = op, !.target = target,
                 !.outcome = outcome]

\* The exchange fetchMessages loads for an existing chat.
LoadedMessages ==
  << [id |-> 1, role |-> "user", content |-> <<"q">>, isStreaming |-> FALSE,
      streamingContent |-> None, history |-> <<>>],
     [id |-> 2, role |-> "assistant", content |-> <<"a">>, isStreaming |-> FALSE,
      streamingContent |-> None, history |-> <<>>] >>

\* The /api/stream action before a request has reached it.
NoRequest ==
  [pc |-> "idle", stream |-> <<>>, fullResponse |-> <<>>, enqueued |-> <<>>,
   closed |-> FALSE, signalAborted |-> FALSE, outcome |-> "none"]

\* useState(false) for showHistory, useState(1) for page.
MountedView == [page |-> 1, showHistory |-> FALSE]

\* The provider before construction of the ChatProvider's children.
InitChat ==
  /\ isLoading = FALSE
  /\ error = "null"
  /\ abortControllerRef = 0
  /\ aborted = {}
  /\ calls = [p \in CallIds |-> NoCall]
  /\ db = {}
  /\ requests = {}

Init ==
  /\ messages \in {<<>>, LoadedMessages}
  /\ InitChat
  /\ server = NoRequest
  /\ view = MountedView

\* ------------------------------------------------------- message helpers

AppendChunk(msg, chunk) ==
  [msg EXCEPT !.streamingContent = Some(OrEmpty(msg.streamingContent) \o chunk)]

\* A variant that replaces the buffer by the chunk instead of appending.
ReplaceStreamingContent(msgs, messageId, chunk) ==
  [i \in 1..Len(msgs) |->
     IF msgs[i].id = messageId
     THEN [msgs[i] EXCEPT !.streamingContent = Some(chunk)] ELSE msgs[i]]

\* updateStreamingContent(messageId, chunk): the list it leaves.
updateStreamingContent(msgs, messageId, chunk) ==
  [i \in 1..Len(msgs) |->
     IF msgs[i].id = messageId THEN AppendChunk(msgs[i], chunk) ELSE msgs[i]]

\* A variant that appends the final text to the content it finds.
FinalizedAppends(msg, finalContent) ==
  [msg EXCEPT !.content = @ \o finalContent, !.isStreaming = FALSE,
              !.streamingContent = None]

\* The message finalizeStreamingMessage leaves for a message it matches.
Finalized(msg, finalContent) ==
  [msg EXCEPT !.content = finalContent, !.isStreaming = FALSE,
              !.streamingContent = None]

\* A variant that also finalizes every message that is streaming.
FinalizeEveryStreaming(msgs, messageId, finalContent) ==
  [i \in 1..Len(msgs) |->
     IF msgs[i].id = messageId \/ msgs[i].isStreaming
     THEN Finalized(msgs[i], finalContent) ELSE msgs[i]]

\* finalizeStreamingMessage(messageId, finalContent): the list it leaves
\* (the action that uses it also sets isLoading to false).
finalizeStreamingMessage(msgs, messageId, finalContent) ==
  [i \in 1..Len(msgs) |->
     IF msgs[i].id = messageId THEN Finalized(msgs[i], finalContent) ELSE msgs[i]]

\* messages.findIndex(msg => msg.id === messageId), 0-based, -1 if absent.
FindIndex(msgs, messageId) ==
  LET hits == {i \in 1..Len(msgs) : msgs[i].id = messageId}
  IN  IF hits = {} THEN -1 ELSE (CHOOSE i \in hits : \A j \in hits : i <= j) - 1

\* A variant of the filter that leaves the placeholder in the list.
KeepPlaceholder(msgs, assistantMessageId) ==
  LET keep(msg) == msg.role = "assistant" IN SelectSeq(msgs, keep)

\* The filter of sendMessage's catch block.
ClearPlaceholder(msgs, assistantMessageId) ==
  LET keep(msg) == msg.id # assistantMessageId /\ msg.role = "assistant"
  IN  SelectSeq(msgs, keep)

\* The optimistic update of regenerateMessage.
StartRegeneration(msgs, messageId, newHistory) ==
  [i \in 1..Len(msgs) |->
     IF msgs[i].id = messageId
     THEN [msgs[i] EXCEPT !.history = newHistory, !.isStreaming = TRUE,
                          !.streamingContent = Some(<<>>), !.content = <<>>]
     ELSE msgs[i]]

\* A variant of the revert that restores content from what the list holds.
RevertFromList(msgs, messageId, currentContent, oldHistory) ==
  [i \in 1..Len(msgs) |->
     IF msgs[i].id = messageId
     THEN [msgs[i] EXCEPT !.isStreaming = FALSE,
                          !.content = OrEmpty(msgs[i].streamingContent),
                          !.history = oldHistory, !.streamingContent = None]
     ELSE msgs[i]]

\* The revert of regenerateMessage's catch block.
RevertRegeneration(msgs, messageId, currentContent, oldHistory) ==
  [i \in 1..Len(msgs) |->
     IF msgs[i].id = messageId
     THEN [msgs[i] EXCEPT !.isStreaming = FALSE, !.content = currentContent,
                          !.history = oldHistory, !.streamingContent = None]
     ELSE msgs[i]]

UserMessage(p, content) ==
  [id |-> UserMessageId(p), role |-> "user", content |-> content,
   isStreaming |-> FALSE, streamingContent |-> None, history |-> <<>>]

AssistantPlaceholder(p) ==
  [id |-> AssistantMessageId(p), role |-> "assistant", content |-> <<>>,
   isStreaming |-> TRUE, streamingContent |-> Some(<<>>), history |-> <<>>]

\* ------------------------------------------------------------------ tokens

\* A variant that installs the new controller without aborting the old one.
InstallWithoutAbort(p) ==
  /\ aborted' = aborted
  /\ abortControllerRef' = p

\* if (abortControllerRef.current) abort(); then install a new controller.
\* The controller a call creates carries the call's number.
InstallController(p) ==
  /\ aborted' = IF abortControllerRef # 0
                THEN aborted \cup {abortControllerRef} ELSE aborted
  /\ abortControllerRef' = p

\* controller.signal.aborted of call p
SignalAborted(p) == p \in aborted

\* The next call number: calls are numbered in the order they are made.
IsNextCall(p) ==
  /\ calls[p].pc = "idle"
  /\ \A q \in CallIds : q < p => calls[q].pc # "idle"

\* ----------------------------------------------------------- stopGeneration

stopGeneration ==
  /\ IF abortControllerRef # 0
     THEN /\ aborted' = aborted \cup {abortControllerRef}
          /\ abortControllerRef' = 0
          /\ isLoading' = FALSE
     ELSE UNCHANGED <<aborted, abortControllerRef, isLoading>>
  /\ UNCHANGED <<messages, error, calls, db, requests>>

\* -------------------------------------------------------------- sendMessage

\* A variant that tests for blank input after the loading flag has been set
\* and the controller installed.
sendMessageLoadsFirst(p, content, hasChatId, isContinuation) ==
  /\ IsNextCall(p)
  /\ InstallController(p)
  /\ isLoading' = (Trim(content) = <<>> \/ hasChatId)
  /\ error' = IF Trim(content) # <<>> /\ ~hasChatId
              THEN "Chat session not properly initialized." ELSE "null"
  /\ calls' = [calls EXCEPT ![p] =
       IF Trim(content) = <<>> THEN Returned(p, "send", UnknownId, "blank")
       ELSE IF ~hasChatId THEN Returned(p, "send", UnknownId, "noChatId")
       ELSE [@ EXCEPT !.pc = "session", !.op = "send", !.content = content,
                      !.isContinuation = isContinuation,
                      !.target = AssistantMessageId(p)]]
  /\ UNCHANGED <<messages, db, requests>>

\* The call itself, up to "await supabase.auth.getSession()".  Blank input
\* returns at once; a missing chat id returns after the controller has been
\* installed.
sendMessage(p, content, hasChatId, isContinuation) ==
  /\ IsNextCall(p)
  /\ IF Trim(content) = <<>>
     THEN /\ calls' = [calls EXCEPT ![p] =
               Returned(p, "send", UnknownId, "blank")]
          /\ UNCHANGED <<messages, isLoading, error, abortControllerRef,
                         aborted, db, requests>>
     ELSE /\ InstallController(p)
          /\ IF hasChatId
             THEN /\ isLoading' = TRUE
                  /\ error' = "null"
                  /\ calls' = [calls EXCEPT ![p] =
                       [@ EXCEPT !.pc = "session", !.op = "send",
                                 !.content = content,
                                 !.isContinuation = isContinuation,
                                 !.target = AssistantMessageId(p)]]
             ELSE /\ isLoading' = FALSE
                  /\ error' = "Chat session not properly initialized."
                  /\ calls' = [calls EXCEPT ![p] =
                       Returned(p, "send", UnknownId, "noChatId")]
          /\ UNCHANGED <<messages, db, requests>>

\* Appends the assistant placeholder to msgs and issues the POST to /api/stream.
IssueSendRequest(p, msgs) ==
  /\ messages' = Append(msgs, AssistantPlaceholder(p))
  /\ requests' = requests \cup {[call |-> p, message |-> calls[p].content]}
  /\ calls' = [calls EXCEPT ![p] = [@ EXCEPT !.pc = "fetch"]]

\* A variant that issues the request without waiting for the user message.
SendSessionResolvedEager(p, loggedIn) ==
  /\ calls[p].pc = "session"
  /\ calls[p].op = "send"
  /\ IF ~loggedIn
     THEN /\ error' = "You must be logged in to send messages"
          /\ isLoading' = FALSE
          /\ calls' = [calls EXCEPT ![p] =
               Returned(p, calls[p].op, calls[p].target, "notLoggedIn")]
          /\ UNCHANGED <<messages, db, requests>>
     ELSE /\ IssueSendRequest(p, messages)
          /\ UNCHANGED <<error, isLoading, db>>
  /\ UNCHANGED <<abortControllerRef, aborted>>

\* getSession() resolved in sendMessage.
SendSessionResolved(p, loggedIn) ==
  /\ calls[p].pc = "session"
  /\ calls[p].op = "send"
  /\ IF ~loggedIn
     THEN /\ error' = "You must be logged in to send messages"
          /\ isLoading' = FALSE
          /\ calls' = [calls EXCEPT ![p] =
               Returned(p, calls[p].op, calls[p].target, "notLoggedIn")]
          /\ UNCHANGED <<messages, db, requests>>
     ELSE IF calls[p].isContinuation
     THEN /\ IssueSendRequest(p, messages)
          /\ UNCHANGED <<error, isLoading, db>>
     ELSE /\ messages' = Append(messages, UserMessage(p, calls[p].content))
          /\ db' = db \cup {[kind |-> "insert", id |-> UserMessageId(p),
                             role |-> "user", content |-> calls[p].content,
                             history |-> <<>>]}
          /\ calls' = [calls EXCEPT ![p] = [@ EXCEPT !.pc = "insertUser"]]
          /\ UNCHANGED <<error, isLoading, requests>>
  /\ UNCHANGED <<abortControllerRef, aborted>>

\* The insert of the user message settled: it returned without error,
\* returned an error or threw; in the last two cases the failure is logged.
UserInsertSettled(p, result) ==
  /\ calls[p].pc = "insertUser"
  /\ messages' = Append(messages, AssistantPlaceholder(p))
  /\ requests' = requests \cup {[call |-> p, message |-> calls[p].content]}
  /\ calls' = [calls EXCEPT ![p] =
       [@ EXCEPT !.pc = "fetch", !.writeFailed = (result # "ok")]]
  /\ UNCHANGED <<isLoading, error, abortControllerRef, aborted, db>>

\* The catch block of sendMessage.
SendCatch(p, isAbortError) ==
  /\ IF isAbortError
     THEN UNCHANGED <<error, messages>>
     ELSE /\ error' = "Failed to send message"
          /\ messages' = ClearPlaceholder(messages, calls[p].target)
  /\ isLoading' = FALSE
  /\ abortControllerRef' = 0
  /\ calls' = [calls EXCEPT ![p] =
       Returned(p, calls[p].op, calls[p].target,
                IF isAbortError THEN "abortError" ELSE "error")]

\* ------------------------------------------------------- regenerateMessage

\* The call itself, up to "await supabase.auth.getSession()".
regenerateMessage(p, messageId) ==
  LET messageIndex == FindIndex(messages, messageId)
      valid == /\ messageIndex > 0
               /\ messages[messageIndex + 1].role = "assistant"
               /\ messages[messageIndex].role = "user"
  IN  /\ IsNextCall(p)
      /\ InstallController(p)
      /\ IF valid
         THEN /\ isLoading' = TRUE
              /\ error' = "null"
              /\ calls' = [calls EXCEPT ![p] =
                   [@ EXCEPT !.pc = "session", !.op = "regenerate",
                             !.target = messageId,
                             !.currentContent = messages[messageIndex + 1].content,
                             !.oldHistory = messages[messageIndex + 1].history,
                             !.wasStreaming = messages[messageIndex + 1].isStreaming,
                             !.newHistory = <<messages[messageIndex + 1].content>>
                                              \o messages[messageIndex + 1].history,
                             !.userContent = messages[messageIndex].content]]
         ELSE /\ isLoading' = FALSE
              /\ error' = IF messageIndex <= 0
                          THEN "Cannot regenerate the first message or a user message."
                          ELSE "Regeneration requires an assistant message preceded by a user message."
              /\ calls' = [calls EXCEPT ![p] =
                   Returned(p, "regenerate", UnknownId, "invalid")]
      /\ UNCHANGED <<messages, db, requests>>

\* getSession() resolved in regenerateMessage.
RegenerateSessionResolved(p, loggedIn) ==
  /\ calls[p].pc = "session"
  /\ calls[p].op = "regenerate"
  /\ IF ~loggedIn
     THEN /\ error' = "You must be logged in to regenerate messages"
          /\ isLoading' = FALSE
          /\ calls' = [calls EXCEPT ![p] =
               Returned(p, calls[p].op, calls[p].target, "notLoggedIn")]
          /\ UNCHANGED <<messages, requests>>
     ELSE /\ messages' = StartRegeneration(messages, calls[p].target,
                                           calls[p].newHistory)
          /\ requests' = requests \cup
               {[call |-> p, message |-> calls[p].userContent]}
          /\ calls' = [calls EXCEPT ![p] = [@ EXCEPT !.pc = "fetch"]]
          /\ UNCHANGED <<error, isLoading>>
  /\ UNCHANGED <<abortControllerRef, aborted, db>>

\* The catch block of regenerateMessage.
RegenerateCatch(p, isAbortError) ==
  /\ IF isAbortError
     THEN UNCHANGED <<error, messages>>
     ELSE /\ error' = "Failed to regenerate message"
          /\ messages' = RevertRegeneration(messages, calls[p].target,
                           calls[p].currentContent, calls[p].oldHistory)
  /\ isLoading' = FALSE
  /\ abortControllerRef' = 0
  /\ calls' = [calls EXCEPT ![p] =
       Returned(p, calls[p].op, calls[p].target,
                IF isAbortError THEN "abortError" ELSE "error")]

\* A variant of the catch blocks that handles an abort like any other error.
CatchReportsAbort(p, isAbortError) ==
  IF calls[p].op = "send" THEN SendCatch(p, FALSE)
  ELSE RegenerateCatch(p, FALSE)

\* The catch block of the call.
Catch(p, isAbortError) ==
  IF calls[p].op = "send" THEN SendCatch(p, isAbortError)
  ELSE RegenerateCatch(p, isAbortError)

\* ------------------------------------------------- the streaming request

\* "await fetch(...)" settled.  With the signal aborted the fetch rejects
\* with an AbortError; otherwise it resolves with a 2xx response carrying
\* body, resolves with another status, or rejects with a network error.
FetchSettled(p, result, body) ==
  /\ calls[p].pc = "fetch"
  /\ IF SignalAborted(p)
     THEN /\ Catch(p, TRUE)
     ELSE IF result = "ok"
     THEN /\ calls' = [calls EXCEPT ![p] = [@ EXCEPT !.pc = "read", !.net = body]]
          /\ UNCHANGED <<messages, isLoading, error, abortControllerRef>>
     ELSE /\ Catch(p, FALSE)
  /\ UNCHANGED <<aborted, db, requests>>

\* "if (controller.signal.aborted)" after a read that resolved: finalize
\* with the text accumulated so far and return.
AbortedInLoop(p) ==
  /\ messages' = finalizeStreamingMessage(messages, calls[p].target,
                                          calls[p].streamedContent)
  /\ isLoading' = FALSE
  /\ calls' = [calls EXCEPT ![p] =
       Returned(p, calls[p].op, calls[p].target, "aborted")]
  /\ UNCHANGED <<abortControllerRef, db>>

\* The code after the read loop, up to the await of the database write:
\* the slot is cleared, finalContent is computed and the write is issued.
LoopExit(p, net, received, streamedContent, completeMarkerIndex, messageData) ==
  LET finalContent == IF completeMarkerIndex # -1
                      THEN SubstringTo(streamedContent, completeMarkerIndex)
                      ELSE streamedContent
  IN  /\ abortControllerRef' = 0
      /\ db' = db \cup
           {IF calls[p].op = "send"
            THEN [kind |-> "insert", id |-> calls[p].target, role |-> "assistant",
                  content |-> finalContent, history |-> <<>>]
            ELSE [kind |-> "update", id |-> calls[p].target, role |-> "assistant",
                  content |-> finalContent, history |-> calls[p].newHistory]}
      /\ calls' = [calls EXCEPT ![p] =
           [@ EXCEPT !.pc = "persist", !.net = net, !.received = received,
                     !.streamedContent = streamedContent,
                     !.messageData = messageData,
                     !.finalContent = finalContent]]
      /\ UNCHANGED <<messages, isLoading>>

\* "await reader.read()" resolved with a chunk: the first n characters of
\* what the server has still to send.  received is everything delivered so
\* far, in delivery order; net is what has not been delivered yet.
ReadChunk(p, n) ==
  LET chunk == SubSeq(calls[p].net, 1, n)
      net == SubstringFrom(calls[p].net, n)
      received == calls[p].received \o chunk
      streamedContent == calls[p].streamedContent \o chunk
      completeMarkerIndex == IndexOf(streamedContent, Marker)
      jsonData == SubstringFrom(streamedContent, completeMarkerIndex + MarkerSkip)
  IN  /\ calls[p].pc = "read"
      /\ n \in 1..Len(calls[p].net)
      /\ IF SignalAborted(p)
         THEN AbortedInLoop(p)
         ELSE IF completeMarkerIndex # -1
         THEN IF JsonParses(jsonData)
              THEN LoopExit(p, net, received,
                            SubstringTo(streamedContent, completeMarkerIndex),
                            completeMarkerIndex, Some(JsonContent(jsonData)))
              ELSE LoopExit(p, net, received, streamedContent,
                            completeMarkerIndex, None)
         ELSE /\ messages' = updateStreamingContent(messages, calls[p].target, chunk)
              /\ calls' = [calls EXCEPT ![p] =
                   [@ EXCEPT !.net = net,
                             !.received = received,
                             !.streamedContent = streamedContent]]
              /\ UNCHANGED <<isLoading, abortControllerRef, db>>
      /\ UNCHANGED <<error, aborted, requests>>

\* A read of the coarse network.
CoarseRead(p) == \E n \in CoarseCuts(calls[p].net) : ReadChunk(p, n)

\* A variant of the done branch that drops the text read so far.
ReadDoneDiscards(p) ==
  /\ calls[p].pc = "read"
  /\ IF SignalAborted(p)
     THEN AbortedInLoop(p)
     ELSE LoopExit(p, <<>>, calls[p].received, <<>>, -1, None)
  /\ UNCHANGED <<error, aborted, requests>>

\* "await reader.read()" resolved with done: the server closed the body
\* (at its end or before it).
ReadDone(p) ==
  /\ calls[p].pc = "read"
  /\ IF SignalAborted(p)
     THEN AbortedInLoop(p)
     ELSE LoopExit(p, <<>>, calls[p].received, calls[p].streamedContent, -1, None)
  /\ UNCHANGED <<error, aborted, requests>>

\* "await reader.read()" rejected: with an AbortError when the signal is
\* aborted, with a network error otherwise.
ReadRejected(p) ==
  /\ calls[p].pc = "read"
  /\ Catch(p, SignalAborted(p))
  /\ UNCHANGED <<aborted, db, requests>>

\* A variant in which a failed write reports an error and leaves the
\* message streaming.
PersistSettledStrict(p, result) ==
  /\ calls[p].pc = "persist"
  /\ IF result = "ok"
     THEN /\ messages' = finalizeStreamingMessage(messages, calls[p].target,
               IF calls[p].op = "send" /\ calls[p].messageData # None
               THEN calls[p].messageData[1] ELSE calls[p].finalContent)
          /\ error' = error
     ELSE /\ messages' = messages
          /\ error' = "Failed to save message"
  /\ isLoading' = FALSE
  /\ calls' = [calls EXCEPT ![p] =
       Returned(p, calls[p].op, calls[p].target, "completed")]
  /\ UNCHANGED <<abortControllerRef, aborted, db, requests>>

\* The database write settled, with any result (a failure is only logged):
\* finalize.
\* sendMessage prefers the content of the JSON tail, regenerateMessage
\* always uses finalContent.
PersistSettled(p, result) ==
  /\ calls[p].pc = "persist"
  /\ messages' = finalizeStreamingMessage(messages, calls[p].target,
       IF calls[p].op = "send" /\ calls[p].messageData # None
       THEN calls[p].messageData[1] ELSE calls[p].finalContent)
  /\ isLoading' = FALSE
  /\ calls' = [calls EXCEPT ![p] =
       Returned(p, calls[p].op, calls[p].target, "completed")]
  /\ UNCHANGED <<error, abortControllerRef, aborted, db, requests>>

\* ------------------------------------------------------------ specification

\* A step of the chat provider: the action and the component stay as they are.
ChatOnly == UNCHANGED <<server, view>>

\* The chat under concurrent calls; the network delivers coarse chunks.
Next ==
  \/ \E p \in CallIds, content \in UserTexts, hasChatId \in BOOLEAN,
        isContinuation \in BOOLEAN :
       sendMessage(p, content, hasChatId, isContinuation) /\ ChatOnly
  \/ \E p \in CallIds, messageId \in 0..(2 * MaxCalls + 2) :
       regenerateMessage(p, messageId) /\ ChatOnly
  \/ stopGeneration /\ ChatOnly
  \/ \E p \in CallIds, loggedIn \in BOOLEAN : SendSessionResolved(p, loggedIn) /\ ChatOnly
  \/ \E p \in CallIds, loggedIn \in BOOLEAN : RegenerateSessionResolved(p, loggedIn) /\ ChatOnly
  \/ \E p \in CallIds, result \in WriteResults : UserInsertSettled(p, result) /\ ChatOnly
  \/ \E p \in CallIds, result \in {"ok", "status", "network"}, body \in Bodies :
       FetchSettled(p, result, body) /\ ChatOnly
  \/ \E p \in CallIds : CoarseRead(p) /\ ChatOnly
  \/ \E p \in CallIds : ReadDone(p) /\ ChatOnly
  \/ \E p \in CallIds : ReadRejected(p) /\ ChatOnly
  \/ \E p \in CallIds, result \in WriteResults : PersistSettled(p, result) /\ ChatOnly

Spec == Init /\ [][Next]_vars

\* One Turn at a time over a network that may split the body of any
\* well-formed response anywhere and closes it at its end.
Quiet == \A q \in CallIds : calls[q].pc \in {"idle", "done"}

WireRead(p) == \E n \in AnyCuts(calls[p].net) : ReadChunk(p, n)

WireDone(p) == calls[p].net = <<>> /\ ReadDone(p)

NextWire ==
  \/ \E p \in CallIds, content \in UserTexts, hasChatId \in BOOLEAN,
        isContinuation \in BOOLEAN :
       Quiet /\ sendMessage(p, content, hasChatId, isContinuation) /\ ChatOnly
  \/ \E p \in CallIds, messageId \in 0..(2 * MaxCalls + 2) :
       Quiet /\ regenerateMessage(p, messageId) /\ ChatOnly
  \/ \E p \in CallIds, loggedIn \in BOOLEAN : SendSessionResolved(p, loggedIn) /\ ChatOnly
  \/ \E p \in CallIds, loggedIn \in BOOLEAN : RegenerateSessionResolved(p, loggedIn) /\ ChatOnly
  \/ \E p \in CallIds, result \in WriteResults : UserInsertSettled(p, result) /\ ChatOnly
  \/ \E p \in CallIds, result \in {"ok", "status", "network"}, body \in WireBodies :
       FetchSettled(p, result, body) /\ ChatOnly
  \/ \E p \in CallIds : WireRead(p) /\ ChatOnly
  \/ \E p \in CallIds : WireDone(p) /\ ChatOnly
  \/ \E p \in CallIds, result \in WriteResults : PersistSettled(p, result) /\ ChatOnly

SpecWire == Init /\ [][NextWire]_vars

\* ------------------------------------------------- the /api/stream action

\* The history the action hands to the provider for a request that carries
\* message.
messageHistory(message) == << [role |-> "user", content |-> message] >>

\* A chunk of the provider stream: chunk.text() returns text (which may be
\* empty) or throws.
ProviderChunks ==
  {[text |-> <<"c">>, throws |-> FALSE],
   [text |-> <<"d", "e">>, throws |-> FALSE],
   [text |-> <<>>, throws |-> FALSE],
   [text |-> <<>>, throws |-> TRUE]}

ProviderStreams ==
  UNION {[1..n -> ProviderChunks] : n \in 0..MaxChunks}

\* The text enqueued when the provider fails: "\nError: Failed to get
\* response from <model>."
ErrorText == <<"LF", "E", "r", "r", "o", "r">>

\* The writes of one enqueue per character of text.
EachCharacter(text) == [i \in 1..Len(text) |-> <<text[i]>>]

\* The action has validated the request and built the ReadableStream; its
\* start function awaits the provider's stream.
InitServer ==
  /\ messages = <<>>
  /\ InitChat
  /\ view = MountedView
  /\ \E stream \in ProviderStreams :
       server = [NoRequest EXCEPT !.pc = "provider", !.stream = stream]

\* request.signal fires: the client went away.
RequestAborted ==
  /\ server.pc \in {"provider", "loop"}
  /\ ~server.signalAborted
  /\ server' = [server EXCEPT !.signalAborted = TRUE]

\* The catch block of start: an AbortError is logged; for any other error
\* the error text is enqueued unless the signal is aborted; the body is
\* closed.
StartCatch(isAbortError) ==
  server' = [server EXCEPT
    !.pc = "closed", !.closed = TRUE,
    !.enqueued = IF ~isAbortError /\ ~server.signalAborted
                 THEN Append(@, ErrorText) ELSE @,
    !.outcome = IF isAbortError THEN "abortError" ELSE "failed"]

\* "await stream...Response(...)" settled.
ProviderSettled(result) ==
  /\ server.pc = "provider"
  /\ IF result = "ok" THEN server' = [server EXCEPT !.pc = "loop"]
     ELSE StartCatch(result = "abortError")

\* The for-await loop received a chunk.
ChunkReceived ==
  /\ server.pc = "loop"
  /\ server.stream # <<>>
  /\ LET chunk == Head(server.stream) IN
       IF server.signalAborted
       THEN server' = [server EXCEPT !.pc = "closed", !.closed = TRUE,
                                     !.outcome = "aborted"]
       ELSE IF chunk.throws
       THEN server' = [server EXCEPT !.stream = Tail(@)]
       ELSE server' = [server EXCEPT
              !.stream = Tail(@),
              !.fullResponse = @ \o chunk.text,
              !.enqueued = @ \o EachCharacter(chunk.text)]

\* A variant that writes the marker whether or not the signal is aborted.
StreamEndedAlwaysMarks ==
  /\ server.pc = "loop"
  /\ server.stream = <<>>
  /\ server' = [server EXCEPT
       !.pc = "closed", !.closed = TRUE, !.outcome = "ended",
       !.enqueued = Append(@, Marker \o JsonTail(server.fullResponse))]

\* The provider stream ended: the marker and the JSON tail are enqueued in
\* one write unless the signal is aborted; the body is closed.
StreamEnded ==
  /\ server.pc = "loop"
  /\ server.stream = <<>>
  /\ server' = [server EXCEPT
       !.pc = "closed", !.closed = TRUE, !.outcome = "ended",
       !.enqueued = IF ~server.signalAborted
                    THEN Append(@, Marker \o JsonTail(server.fullResponse))
                    ELSE @]

\* The provider stream threw while it was iterated.
StreamFailed(isAbortError) ==
  /\ server.pc = "loop"
  /\ StartCatch(isAbortError)

\* A step of the action: the chat provider stays as it is.
ServerOnly ==
  UNCHANGED <<messages, isLoading, error, abortControllerRef, aborted, calls,
              db, requests, view>>

NextServer ==
  \/ RequestAborted /\ ServerOnly
  \/ \E result \in {"ok", "error", "abortError"} : ProviderSettled(result) /\ ServerOnly
  \/ ChunkReceived /\ ServerOnly
  \/ StreamEnded /\ ServerOnly
  \/ \E isAbortError \in BOOLEAN : StreamFailed(isAbortError) /\ ServerOnly

SpecServer == InitServer /\ [][NextServer]_vars

\* ------------------------------------------------- the ChatMessage component

\* The component is followed for the assistant message of the loaded chat.
ViewedId == 2

itemsPerPage == 1

\* The message prop: the component is mounted while the message is listed.
Mounted == \E i \in 1..Len(messages) : messages[i].id = ViewedId

message == messages[CHOOSE i \in 1..Len(messages) : messages[i].id = ViewedId]

\* Math.ceil(history.length / itemsPerPage)
totalPages == (Len(message.history) + itemsPerPage - 1) \div itemsPerPage

\* array.slice(start, end) for 0 <= start <= end.
Slice(array, start, end) ==
  SubSeq(array, start + 1, IF end < Len(array) THEN end ELSE Len(array))

\* history.slice(currentPageIndex * itemsPerPage, (currentPageIndex + 1) * itemsPerPage)
paginatedHistory ==
  Slice(message.history, (view.page - 1) * itemsPerPage, view.page * itemsPerPage)

\* The previous/next buttons are rendered.
ControlsRendered ==
  Len(message.history) > 0 /\ view.showHistory /\ totalPages > 1

\* Click on the regenerate button (disabled while the message streams).
handleRegenerate(p) ==
  /\ Mounted
  /\ ~message.isStreaming
  /\ view' = [page |-> 1, showHistory |-> FALSE]
  /\ regenerateMessage(p, ViewedId)
  /\ UNCHANGED server

\* Click on the previous-page button (disabled on page 1).
handlePrevPage ==
  /\ Mounted
  /\ ControlsRendered
  /\ view.page # 1
  /\ view' = [view EXCEPT !.page = IF @ - 1 > 1 THEN @ - 1 ELSE 1]
  /\ UNCHANGED <<messages, isLoading, error, abortControllerRef, aborted,
                 calls, db, requests, server>>

\* Click on the next-page button (disabled on the last page).
handleNextPage ==
  /\ Mounted
  /\ ControlsRendered
  /\ view.page # totalPages
  /\ view' = [view EXCEPT !.page = IF @ + 1 < totalPages THEN @ + 1 ELSE totalPages]
  /\ UNCHANGED <<messages, isLoading, error, abortControllerRef, aborted,
                 calls, db, requests, server>>

\* Click on the history button (rendered when there is history, disabled
\* while the message streams).
toggleHistory ==
  /\ Mounted
  /\ Len(message.history) > 0
  /\ ~message.isStreaming
  /\ view' = [view EXCEPT !.showHistory = ~@]
  /\ UNCHANGED <<messages, isLoading, error, abortControllerRef, aborted,
                 calls, db, requests, server>>

\* The loaded chat with the component of its assistant message mounted.
InitView ==
  /\ messages = LoadedMessages
  /\ InitChat
  /\ server = NoRequest
  /\ view = MountedView

\* The chat of Spec with the component: the viewed message is regenerated
\* by the component's button only.
NextView ==
  \/ \E p \in CallIds, content \in UserTexts, hasChatId \in BOOLEAN,
        isContinuation \in BOOLEAN :
       sendMessage(p, content, hasChatId, isContinuation) /\ ChatOnly
  \/ \E p \in CallIds, messageId \in (0..(2 * MaxCalls + 2)) \ {ViewedId} :
       regenerateMessage(p, messageId) /\ ChatOnly
  \/ \E p \in CallIds : handleRegenerate(p)
  \/ handlePrevPage
  \/ handleNextPage
  \/ toggleHistory
  \/ stopGeneration /\ ChatOnly
  \/ \E p \in CallIds, loggedIn \in BOOLEAN : SendSessionResolved(p, loggedIn) /\ ChatOnly
  \/ \E p \in CallIds, loggedIn \in BOOLEAN : RegenerateSessionResolved(p, loggedIn) /\ ChatOnly
  \/ \E p \in CallIds, result \in WriteResults : UserInsertSettled(p, result) /\ ChatOnly
  \/ \E p \in CallIds, result \in {"ok", "status", "network"}, body \in Bodies :
       FetchSettled(p, result, body) /\ ChatOnly
  \/ \E p \in CallIds : CoarseRead(p) /\ ChatOnly
  \/ \E p \in CallIds : ReadDone(p) /\ ChatOnly
  \/ \E p \in CallIds : ReadRejected(p) /\ ChatOnly
  \/ \E p \in CallIds, result \in WriteResults : PersistSettled(p, result) /\ ChatOnly

SpecView == InitView /\ [][NextView]_vars

\* -------------------------------------------------------------- vocabulary

\* The call has been made and has not returned.
InFlight(p) == calls[p].pc \notin {"idle", "done"}

\* The call returned after its Turn ended (not by an early return).
TurnEnded(p) ==
  /\ calls[p].pc = "done"
  /\ calls[p].outcome \in {"completed", "error", "aborted", "abortError"}

HasMessage(msgs, id) == \E i \in 1..Len(msgs) : msgs[i].id = id

MessageById(msgs, id) == msgs[CHOOSE i \in 1..Len(msgs) : msgs[i].id = id]

StreamingIds(msgs) == {msgs[i].id : i \in {j \in 1..Len(msgs) : msgs[j].isStreaming}}

\* Call p takes a step.
StepOf(p) == calls'[p] # calls[p]

\* Call p returns in this step.
Returns(p) == InFlight(p) /\ calls'[p].pc = "done"

\* The fields a Turn writes in its message, <<>> when the message is absent.
TurnFields(msgs, id) ==
  IF HasMessage(msgs, id)
  THEN <<MessageById(msgs, id).streamingContent, MessageById(msgs, id).content,
         MessageById(msgs, id).isStreaming>>
  ELSE <<>>

\* ---------------------------------------------------------------------- C1

\* C1: in every reachable state at most one message of the list has
\* isStreaming = true.
C1_AtMostOneStreaming == Cardinality(StreamingIds(messages)) <= 1

\* ---------------------------------------------------------------------- C2

\* C2: once a Turn that was reading its stream has been cancelled, no
\* fragment and no finalization of it changes streamingContent, content or
\* isStreaming of the message of a Turn started after it, also when both
\* Turns target the same message id.
C2_NoLateEffectOnLaterTurn ==
  [][\A p \in CallIds : \A q \in CallIds :
       ( /\ p < q
         /\ calls[p].pc = "read"
         /\ calls[p].received # <<>>
         /\ SignalAborted(p)
         /\ StepOf(p)
         /\ (calls[q].pc \in {"fetch", "read", "persist"} \/ TurnEnded(q)) )
       => TurnFields(messages', calls[q].target) = TurnFields(messages, calls[q].target)]_vars

\* ---------------------------------------------------------------------- C3

\* C3: at most one token is live: of the calls in flight at most one has a
\* token that is not aborted, because starting a Turn aborts the token of
\* every earlier Turn before the new token is installed.
C3_AtMostOneLiveToken ==
  Cardinality({p \in CallIds : InFlight(p) /\ ~SignalAborted(p)}) <= 1

\* ---------------------------------------------------------------------- C4

\* Call p is made in this step as a sendMessage with non-blank text.
SendCalled(p) ==
  IsNextCall(p) /\ calls'[p].op = "send" /\ calls'[p].outcome # "blank"

\* C4 as stated: a sendMessage made while a Turn is active is rejected,
\* it returns at once without starting a Turn of its own.
C4_RejectedWhileActive ==
  [][\A p \in CallIds :
       (SendCalled(p) /\ \E q \in CallIds : InFlight(q) /\ ~SignalAborted(q))
       => calls'[p].pc = "done"]_vars

\* C4 as amended: a sendMessage with non-blank text is not rejected while
\* a Turn is active; it aborts the token held in the shared slot, installs
\* its own, appends no message and issues no request or write in that
\* synchronous step, and goes on to its own Turn unless no chat id is
\* available.
C4_CancelsAndProceeds ==
  [][\A p \in CallIds :
       SendCalled(p)
       => /\ abortControllerRef # 0 => abortControllerRef \in aborted'
          /\ abortControllerRef' = p
          /\ UNCHANGED <<messages, requests, db>>
          /\ \/ calls'[p].pc = "session"
             \/ calls'[p].pc = "done" /\ calls'[p].outcome = "noChatId"]_vars

\* A sendMessage was made while an earlier Turn was in flight: the earlier
\* token is aborted, the new call holds the slot and is on its way.
C4_Witness ==
  \E p \in CallIds : \E q \in CallIds :
    /\ p < q
    /\ InFlight(p) /\ SignalAborted(p) /\ calls[p].pc \in {"fetch", "read"}
    /\ calls[q].op = "send" /\ calls[q].pc = "fetch"
    /\ abortControllerRef = q

\* ---------------------------------------------------------------------- C5

\* Number of messages of the list with the given id.
CountId(msgs, id) == Cardinality({i \in 1..Len(msgs) : msgs[i].id = id})

NotStreaming(msgs, id) == HasMessage(msgs, id) => ~MessageById(msgs, id).isStreaming

\* C6: when a call of sendMessage or regenerateMessage resolves after its
\* Turn ended, the message it targeted is not streaming and isLoading is
\* false.
C6_ResolvedNotStreaming ==
  [][\A p \in CallIds :
       ( /\ Returns(p)
         /\ calls'[p].outcome \in {"completed", "error", "aborted", "abortError"} )
       => /\ NotStreaming(messages', calls[p].target)
          /\ isLoading' = FALSE]_vars

\* ---------------------------------------------------------------------- C7

\* C7: when a cancelled sendMessage Turn resolves, its assistant message is
\* in the list with isStreaming = false and the fragments applied so far as
\* content, and no write of that message has been issued.
C7_CancelledKeepsPartial ==
  [][\A p \in CallIds :
       ( /\ Returns(p)
         /\ calls[p].op = "send"
         /\ calls[p].pc \in {"fetch", "read"}
         /\ SignalAborted(p) )
       => /\ HasMessage(messages', calls[p].target)
          /\ ~MessageById(messages', calls[p].target).isStreaming
          /\ MessageById(messages', calls[p].target).content = calls[p].streamedContent
          /\ \A w \in db' : w.id # calls[p].target]_vars

\* ---------------------------------------------------------------------- C8

\* C8: stopGeneration with no Turn active (every call made has returned)
\* leaves messages, isLoading, error and the token slot unchanged.  A step
\* that changes no call is a stopGeneration.
C8_StopIdleNoEffect ==
  [][( /\ \A p \in CallIds : ~InFlight(p)
       /\ calls' = calls )
     => UNCHANGED <<messages, isLoading, error, abortControllerRef>>]_vars

\* ---------------------------------------------------------------------- C9

\* No other call targets the message of call p.
SoleTarget(p) == \A q \in CallIds \ {p} : calls[q].target # calls[p].target

\* C9: while a Turn reads its stream and no marker has arrived, the
\* streamingContent of its message is the concatenation, in receipt order,
\* of the fragments received, whatever other calls ran in between.
C9_FragmentsInOrder ==
  \A p \in CallIds :
    (calls[p].pc = "read" /\ SoleTarget(p))
    => /\ HasMessage(messages, calls[p].target)
       /\ MessageById(messages, calls[p].target).streamingContent
            = Some(calls[p].received)

\* Two different fragments have been applied while another call ran.
C9_Witness ==
  \E p \in CallIds : \E q \in CallIds :
    /\ q < p
    /\ InFlight(q)
    /\ calls[p].pc = "read" /\ SoleTarget(p)
    /\ calls[p].received = <<"c", "d">>
    /\ MessageById(messages, calls[p].target).streamingContent = Some(<<"c", "d">>)

\* --------------------------------------------------------------------- C10

\* C10: when the body of the response to a sendMessage is text T, the
\* marker and a JSON tail with content C, then however the body is split
\* into chunks the message is finalized with content C and the text taken
\* as streamed is T.
C10_TailIsAuthoritative ==
  [][\A p \in CallIds : \A w \in WireCases :
       ( /\ calls[p].op = "send"
         /\ calls[p].pc = "persist"
         /\ calls'[p].pc = "done"
         /\ calls[p].received \o calls[p].net = WireBody(w) )
       => /\ MessageById(messages', calls[p].target).content = w.content
          /\ calls[p].finalContent = w.text]_vars

\* --------------------------------------------------------------------- C11

\* C11: when the stream of a sendMessage or regenerateMessage ends (done)
\* and no marker was in the text received, the message is finalized with
\* the entire received text as content and isStreaming = false.
C11_MissingMarkerFinalizes ==
  [][\A p \in CallIds :
       ( /\ calls[p].pc = "persist"
         /\ calls'[p].pc = "done"
         /\ calls[p].net = <<>>
         /\ IndexOf(calls[p].received, Marker) = -1 )
       => /\ HasMessage(messages', calls[p].target)
          /\ MessageById(messages', calls[p].target).content = calls[p].received
          /\ ~MessageById(messages', calls[p].target).isStreaming]_vars

\* A regeneration and a sendMessage whose streams closed without a marker,
\* one of them after the first characters of the marker, have completed.
C11_Witness ==
  \E p \in CallIds : \E q \in CallIds :
    /\ calls[p].op = "regenerate" /\ calls[p].outcome = "completed"
    /\ calls[q].op = "send" /\ calls[q].outcome = "completed"
    /\ MessageById(messages, calls[p].target).content = <<"a">> \o SubSeq(Marker, 1, 4)
    /\ MessageById(messages, calls[q].target).content = <<"a", "b">>
    /\ StreamingIds(messages) = {}

\* --------------------------------------------------------------------- C12

\* C12: a regenerateMessage of a message that had content X and history H
\* when it was called ends, on success, with content = the new text and
\* history = [X] ++ H.
C12_HistoryPushedToFront ==
  [][\A p \in CallIds :
       ( /\ calls[p].op = "regenerate"
         /\ calls[p].pc = "persist"
         /\ calls'[p].pc = "done" )
       => /\ HasMessage(messages', calls[p].target)
          /\ MessageById(messages', calls[p].target).content = calls[p].finalContent
          /\ MessageById(messages', calls[p].target).history
               = <<calls[p].currentContent>> \o calls[p].oldHistory]_vars

\* --------------------------------------------------------------------- C13

\* C13: a regenerateMessage on an id that is unknown, is the first message,
\* is not an assistant message or is not preceded by a user message returns
\* with the message list, isLoading, the token slot and the token of any
\* Turn active before the call unchanged.
C13_InvalidRegenerateNoEffect ==
  [][\A p \in CallIds :
       ( /\ IsNextCall(p)
         /\ calls'[p].op = "regenerate"
         /\ calls'[p].outcome = "invalid" )
       => UNCHANGED <<messages, isLoading, abortControllerRef, aborted>>]_vars

\* --------------------------------------------------------------------- C14

\* Call p is a regenerateMessage that fails in this step with an error
\* other than an abort.
RegenerationFails(p) ==
  /\ calls[p].op = "regenerate"
  /\ Returns(p)
  /\ calls'[p].outcome = "error"

\* C14 as stated: when a regenerateMessage fails, content, history and
\* isStreaming of its message are the values they had immediately before
\* the call.
C14_RestoredToPreCall ==
  [][\A p \in CallIds :
       RegenerationFails(p)
       => /\ HasMessage(messages', calls[p].target)
          /\ MessageById(messages', calls[p].target).content = calls[p].currentContent
          /\ MessageById(messages', calls[p].target).history = calls[p].oldHistory
          /\ MessageById(messages', calls[p].target).isStreaming = calls[p].wasStreaming]_vars

\* C14 as amended: when a regenerateMessage fails, its message, if it is
\* still in the list, has content and history as they were immediately
\* before the call, isStreaming false and streamingContent cleared, also
\* when fragments had been applied and when the list changed in between;
\* every other message is left as it is.
C14_RevertedToSnapshot ==
  [][\A p \in CallIds :
       RegenerationFails(p)
       => /\ HasMessage(messages, calls[p].target)
             => /\ HasMessage(messages', calls[p].target)
                /\ MessageById(messages', calls[p].target).content = calls[p].currentContent
                /\ MessageById(messages', calls[p].target).history = calls[p].oldHistory
                /\ ~MessageById(messages', calls[p].target).isStreaming
                /\ MessageById(messages', calls[p].target).streamingContent = None
          /\ Len(messages') = Len(messages)
          /\ \A i \in 1..Len(messages) :
               messages[i].id # calls[p].target => messages'[i] = messages[i]]_vars

\* A regeneration of the loaded answer failed after the list had grown:
\* the answer is back as it was loaded.
C14_Witness ==
  \E p \in CallIds :
    /\ calls[p].op = "regenerate" /\ calls[p].outcome = "error"
    /\ calls[p].target = 2
    /\ Len(messages) > Len(LoadedMessages)
    /\ MessageById(messages, 2) = LoadedMessages[2]

\* --------------------------------------------------------------------- C15

\* Empty or white space only.
IsBlank(content) == \A i \in 1..Len(content) : content[i] \in {" ", "LF"}

\* C15: a sendMessage with blank input returns in the same step and leaves
\* messages, isLoading, error, the token slot, the tokens of the Turns in
\* flight and those Turns themselves unchanged, and issues no request and
\* no write.
C15_BlankSendNoEffect ==
  [][\A p \in CallIds : \A content \in {t \in UserTexts : IsBlank(t)} :
       \A hasChatId \in BOOLEAN : \A isContinuation \in BOOLEAN :
         sendMessage(p, content, hasChatId, isContinuation)
         => /\ UNCHANGED <<messages, isLoading, error, abortControllerRef,
                           aborted, db, requests>>
            /\ calls'[p].pc = "done"
            /\ \A q \in CallIds \ {p} : calls'[q] = calls[q]]_vars

\* A blank sendMessage was made while a Turn was reading its stream: the
\* Turn still holds the slot, is not aborted and isLoading is still true.
C15_Witness ==
  \E p \in CallIds : \E q \in CallIds :
    /\ calls[q].outcome = "blank"
    /\ calls[p].pc = "read" /\ calls[p].received # <<>>
    /\ abortControllerRef = p /\ ~SignalAborted(p)
    /\ isLoading

\* --------------------------------------------------------------------- C16

\* Call p is a sendMessage that fails in this step with a transport or
\* provider error.
SendFails(p) ==
  /\ calls[p].op = "send"
  /\ Returns(p)
  /\ calls'[p].outcome = "error"

\* The list without the message of the given id.
WithoutId(msgs, id) == LET keep(msg) == msg.id # id IN SelectSeq(msgs, keep)

\* C16: when a sendMessage fails with a transport or provider error,
\* every message of the list other than the placeholder of the call is
\* still in the list, unchanged and in the same order.
C16_HistoryIntactOnFailure ==
  [][\A p \in CallIds :
       SendFails(p)
       => WithoutId(messages', calls[p].target) = WithoutId(messages, calls[p].target)]_vars

\* --------------------------------------------------------------------- C17

\* C17: when a sendMessage fails with a transport or provider error the
\* error string is set, and the placeholder is kept and finalized with the
\* partial text if a fragment was received, and removed if none was.
C17_PartialKeptOnFailure ==
  [][\A p \in CallIds :
       SendFails(p)
       => /\ error' # "null"
          /\ IF calls[p].received # <<>>
             THEN /\ HasMessage(messages', calls[p].target)
                  /\ MessageById(messages', calls[p].target).content = calls[p].received
                  /\ ~MessageById(messages', calls[p].target).isStreaming
             ELSE ~HasMessage(messages', calls[p].target)]_vars

\* --------------------------------------------------------------------- C18

C19_WriteFailureIgnored ==
  [][\A p \in CallIds :
       /\ (calls[p].pc = "insertUser" /\ StepOf(p))
          => /\ messages' = Append(messages, AssistantPlaceholder(p))
             /\ \E r \in requests' \ requests : r.call = p
             /\ calls'[p].pc = "fetch"
             /\ error' = error
       /\ (calls[p].pc = "persist" /\ StepOf(p))
          => /\ messages' = finalizeStreamingMessage(messages, calls[p].target,
                  IF calls[p].op = "send" /\ calls[p].messageData # None
                  THEN calls[p].messageData[1] ELSE calls[p].finalContent)
             /\ calls'[p].outcome = "completed"
             /\ error' = error]_vars

\* The insert of the user message failed and the Turn went on to read its
\* stream: both messages are in the list and error is null.
C19_Witness ==
  \E p \in CallIds :
    /\ calls[p].writeFailed
    /\ calls[p].pc = "read" /\ calls[p].received # <<>>
    /\ HasMessage(messages, UserMessageId(p))
    /\ MessageById(messages, calls[p].target).streamingContent = Some(calls[p].received)
    /\ error = "null"

\* --------------------------------------------------------------------- C20

\* The events of the Turn of call p, told from what a step adds.
UserMessageAppended(p) ==
  ~HasMessage(messages, UserMessageId(p)) /\ HasMessage(messages', UserMessageId(p))

UserInsertAttempted(p) ==
  \E w \in db' \ db : w.kind = "insert" /\ w.id = UserMessageId(p)

PlaceholderAppended(p) ==
  ~HasMessage(messages, AssistantMessageId(p)) /\ HasMessage(messages', AssistantMessageId(p))

RequestIssued(p) == \E r \in requests' \ requests : r.call = p

\* C20: in a sendMessage that is not a continuation the user message is
\* appended before its insert is attempted, the insert is attempted (and
\* has settled) before the placeholder is appended, and the placeholder is
\* appended before the request is issued; the placeholder is never put in
\* a list that has not held the user message.
C20_SendOrder ==
  [][\A p \in CallIds :
       (calls[p].op = "send" /\ ~calls[p].isContinuation)
       => /\ UserInsertAttempted(p)
             => /\ HasMessage(messages', UserMessageId(p))
                /\ ~HasMessage(messages', AssistantMessageId(p))
                /\ \A r \in requests' : r.call # p
          /\ PlaceholderAppended(p)
             => /\ calls[p].pc = "insertUser"
                /\ \E w \in db : w.kind = "insert" /\ w.id = UserMessageId(p)
                /\ ~UserMessageAppended(p)
          /\ RequestIssued(p)
             => /\ HasMessage(messages', AssistantMessageId(p))
                /\ \E w \in db : w.kind = "insert" /\ w.id = UserMessageId(p)]_vars

\* The request of a sendMessage that is not a continuation is out: the user
\* message comes before the placeholder in the list and its insert has
\* been attempted.
C20_Witness ==
  \E p \in CallIds :
    /\ calls[p].op = "send" /\ ~calls[p].isContinuation
    /\ calls[p].pc = "fetch"
    /\ \E r \in requests : r.call = p
    /\ \E w \in db : w.kind = "insert" /\ w.id = UserMessageId(p)
    /\ FindIndex(messages, UserMessageId(p)) >= 0
    /\ FindIndex(messages, UserMessageId(p)) < FindIndex(messages, AssistantMessageId(p))

\* --------------------------------------------------------------------- C21

\* The writes that contain the marker.
MarkerWrites ==
  {i \in 1..Len(server.enqueued) : IndexOf(server.enqueued[i], Marker) # -1}

\* C21: when the provider stream ended and the request was not cancelled,
\* the body is closed and the marker followed by the JSON tail of the full
\* response was written exactly once, as the last write; when the request
\* was cancelled or the provider failed, no write contains the marker, and
\* the body is closed once the action has noticed; a marker is never
\* written to a body that stays open.
C21_MarkerOnlyOnCompletion ==
  /\ Cardinality(MarkerWrites) <= 1
  /\ MarkerWrites # {} => server.closed
  /\ (server.outcome = "ended" /\ ~server.signalAborted)
     => /\ server.closed
        /\ MarkerWrites = {Len(server.enqueued)}
        /\ server.enqueued[Len(server.enqueued)]
             = Marker \o JsonTail(server.fullResponse)
  /\ (server.signalAborted \/ server.outcome \in {"aborted", "failed", "abortError"})
     => MarkerWrites = {}
  /\ server.outcome \in {"aborted", "failed", "abortError", "ended"} => server.closed

\* The provider yielded "c" and "de" and ended: the body is closed after
\* three character writes and the marker with the tail for "cde".
C21_Witness ==
  /\ server.closed
  /\ server.outcome = "ended"
  /\ server.enqueued = << <<"c">>, <<"d">>, <<"e">>,
                          Marker \o JsonTail(<<"c", "d", "e">>) >>

\* --------------------------------------------------------------------- C22

\* Role and content of every message of the list, in order.
Conversation(msgs) ==
  [i \in 1..Len(msgs) |-> [role |-> msgs[i].role, content |-> msgs[i].content]]

\* C22: when a sendMessage that is not a continuation issues its request,
\* the history the provider is given for it is the whole conversation
\* held before the placeholder: the prior messages followed by the user
\* message just added.
C22_FullHistoryToProvider ==
  [][\A p \in CallIds :
       ( /\ calls[p].op = "send"
         /\ ~calls[p].isContinuation
         /\ RequestIssued(p) )
       => \A r \in requests' \ requests :
            messageHistory(r.message) = Conversation(messages)]_vars

\* --------------------------------------------------------------- C23, C24

\* The Turn of call p is active: its request is in flight or its stream is
\* being read, and its token has not been aborted.
ActiveTurn(p) == calls[p].pc \in {"fetch", "read"} /\ ~SignalAborted(p)

\* C23: while a Turn is active the shared slot holds that Turn's token,
\* also while an earlier Turn, cancelled by starting this one, tears down.
C23_SlotHoldsActiveToken ==
  \A p \in CallIds : ActiveTurn(p) => abortControllerRef = p

\* C24: while a Turn is active isLoading is true, also while an earlier
\* Turn, cancelled by starting this one, tears down.
C24_LoadingWhileActive ==
  \A p \in CallIds : ActiveTurn(p) => isLoading

\* --------------------------------------------------------------------- C25

\* The content call p wrote to the database for the assistant message.
PersistedContent(p) ==
  {w.content : w \in {x \in db : x.id = calls[p].target /\ x.role = "assistant"}}

\* C25: when a sendMessage Turn ends without cancellation, the content it
\* wrote to the database for the assistant message is the content the
\* message has in the list after finalization.
C25_PersistedEqualsLocal ==
  [][\A p \in CallIds :
       ( /\ calls[p].op = "send"
         /\ Returns(p)
         /\ calls'[p].outcome = "completed"
         /\ HasMessage(messages', calls[p].target) )
       => PersistedContent(p) = {MessageById(messages', calls[p].target).content}]_vars

\* --------------------------------------------------------------------- C26

IsPrefix(a, b) == Len(a) <= Len(b) /\ SubSeq(b, 1, Len(a)) = a

\* The text of a body that precedes the marker (all of it without a marker).
TextBeforeMarker(body) ==
  IF IndexOf(body, Marker) # -1 THEN SubstringTo(body, IndexOf(body, Marker)) ELSE body

\* C26: while a call reads its stream, the streamingContent of its message
\* is a prefix of the text of the body that precedes the marker, for every
\* way the body is split into chunks.
C26_BufferIsTextPrefix ==
  \A p \in CallIds :
    (calls[p].pc = "read" /\ HasMessage(messages, calls[p].target))
    => IsPrefix(OrEmpty(MessageById(messages, calls[p].target).streamingContent),
                TextBeforeMarker(calls[p].received \o calls[p].net))

\* --------------------------------------------------------------------- C27

\* Final texts finalizeStreamingMessage is applied with.
FinalTexts == {<<>>, <<"a">>, <<"c", "d">>}

\* Ids finalizeStreamingMessage is applied with: those of the list and one
\* that is not in it.
IdsOf(msgs) == {msgs[i].id : i \in 1..Len(msgs)} \cup {UnknownId}

\* C27: on every list the provider can hold, finalizeStreamingMessage
\* applied twice with the same id and final text gives the list it gives
\* applied once; the matched message gets the final text as content,
\* isStreaming false and no streamingContent; no history changes.
C27_FinalizeIdempotent ==
  \A id \in IdsOf(messages) : \A t \in FinalTexts :
    LET once == finalizeStreamingMessage(messages, id, t)
        twice == finalizeStreamingMessage(once, id, t)
    IN  /\ twice = once
        /\ Len(once) = Len(messages)
        /\ \A i \in 1..Len(messages) :
             /\ once[i].history = messages[i].history
             /\ once[i].id = id =>
                  /\ once[i].content = t
                  /\ ~once[i].isStreaming
                  /\ once[i].streamingContent = None

\* A list with a streaming message that has received text and has history:
\* finalizing it changes content, flag and buffer.
C27_Witness ==
  \E i \in 1..Len(messages) :
    /\ messages[i].isStreaming
    /\ OrEmpty(messages[i].streamingContent) # <<>>
    /\ messages[i].history # <<>>
    /\ finalizeStreamingMessage(messages, messages[i].id, <<"a">>) # messages

\* --------------------------------------------------------------------- C28

\* C28: every streaming message has empty content, and every message that
\* is not streaming has no streamingContent buffer.
C28_PartialOnlyInBuffer ==
  \A i \in 1..Len(messages) :
    /\ messages[i].isStreaming => messages[i].content = <<>>
    /\ ~messages[i].isStreaming => messages[i].streamingContent = None

\* --------------------------------------------------------------------- C29

\* The list after differs from the list before at most in the message id:
\* same length, same ids in the same order, every other message unchanged.
OnlyChanges(before, after, id) ==
  /\ Len(after) = Len(before)
  /\ \A i \in 1..Len(before) :
       /\ after[i].id = before[i].id
       /\ before[i].id # id => after[i] = before[i]

\* A user message of the list that is still in the list after the step has
\* all its fields unchanged.
UserMessagesKept ==
  \A i \in 1..Len(messages) : \A j \in 1..Len(messages') :
    (messages[i].role = "user" /\ messages'[j].id = messages[i].id)
    => messages'[j] = messages[i]

RegenerationStarts ==
  \E p \in CallIds :
    /\ calls[p].pc = "idle"
    /\ StepOf(p)
    /\ calls'[p].op = "regenerate"
    /\ calls'[p].target = ViewedId

\* The page index is within 1..max(1, length(history)) and the item shown
\* is the entry of history at the page index.
PageInRange ==
  Mounted =>
    /\ view.page >= 1
    /\ view.page <= (IF Len(message.history) > 1 THEN Len(message.history) ELSE 1)
    /\ Len(message.history) > 0 => paginatedHistory = <<message.history[view.page]>>

\* C30: after any sequence of previous-page, next-page, toggle and
\* regenerate actions the page index is within 1..max(1, length(history)),
\* the item shown is the history entry at that index, and starting a
\* regeneration sets the page index to 1.
C30_PaginationInRange ==
  /\ []PageInRange
  /\ [][RegenerationStarts => view'.page = 1]_vars

====
